---- MODULE Spec2Model ----
(***************************************************************************)
(* Percolation clusters and hop distances on the N-dimensional hypercube   *)
(* (src/src/hypercube_functions.c).  One behaviour is one call of one      *)
(* top-level operation; the random source is a nondeterministic draw.      *)
(*                                                                         *)
(* Probabilities and variates are written in hundredths: p = 100 is the    *)
(* C value 1.0, and a variate of gsl_rng_uniform lies in [0, 1).           *)
(*                                                                         *)
(* Released memory: a read of a released buffer yields what was last       *)
(* stored there, or the process aborts (action Abort); both are outcomes   *)
(* a build produces.  A local handle that was never assigned tests as      *)
(* NULL or as non-NULL, by nondeterministic choice.                        *)
(***************************************************************************)
EXTENDS Integers, Sequences, FiniteSets, TLC

\* ------------------------------------------------------------- bounds
\* Largest dimension N of a call.
MaxN == 4
\* The random source varies on the draws for edges among the first RandSites
\* sites; on every other draw it returns its top variate.
RandSites == 6
\* Largest realisation count given to hypercube_clusters.
MaxNR == 2

\* ---------------------------------------------------------- constants
\* The sentinel of distances[] and labels[].  It stands for 2^64 - 1: what
\* the code needs of it is that it exceeds every distance and cluster index
\* and that adding 1 to it wraps to 0 (see new_cost).
ULONG_MAX == 2147483647

Ops == {"hypercube_clusters", "hypercube_H", "hypercube_H_SC",
        "hypercube_H_LC", "hypercube_dijkstra", "hypercube_dijkstra_LC"}
LC_Ops == {"hypercube_H_LC", "hypercube_dijkstra_LC"}
DFS_H_Ops == {"hypercube_H_SC", "hypercube_H_LC"}
Dijkstra_Ops == {"hypercube_dijkstra", "hypercube_dijkstra_LC"}

\* p as the callers may pass it, in hundredths; 150 is out of range.
Probabilities == {0, 50, 100, 150}
\* The variates the random source may return for the draw on edge {u, v},
\* in hundredths.
Variates(u, v) == IF u < RandSites /\ v < RandSites THEN {0, 99} ELSE {99}

Buffers == {"q", "s", "visited", "distances", "labels",
            "hamiltonian", "hamiltonian_LC", "numpy_array"}

\* ------------------------------------------------------ pure helpers
RECURSIVE intpower(_, _)
intpower(base, exponent) ==
    IF exponent = 0 THEN 1 ELSE base * intpower(base, exponent - 1)

Order(n) == intpower(2, n)
Sites(n) == 0 .. (Order(n) - 1)
Bits(n) == 0 .. (n - 1)

\* u ^ (1UL << i)
Flip(u, i) ==
    IF (u \div intpower(2, i)) % 2 = 1
    THEN u - intpower(2, i)
    ELSE u + intpower(2, i)

\* N must keep 2^N inside the integer domain, p must lie in [0, 1], the
\* realisation count must be positive.
check_args(n, nr, prob) == n < 64 /\ nr > 0 /\ 0 <= prob /\ prob <= 100

\* The outcomes of `gsl_rng_uniform(RNG) < p` the random source allows for
\* the draw on edge {u, v}.
Below_le(prob, u, v) == {x <= prob : x \in Variates(u, v)}
Below(prob, u, v) == {x < prob : x \in Variates(u, v)}

\* The sets of bit positions of u, among `cand`, whose draw may come out
\* below p.
DrawSets(u, cand, prob) ==
    {B \in SUBSET cand :
        \A b \in cand : (b \in B) \in Below(prob, u, Flip(u, b))}

Edge(u, v) == {u, v}

ZeroMatrix(n) == [a \in Sites(n) |-> [b \in Sites(n) |-> 0]]

\* The buffer that holds the matrix grow_H_cluster writes.
MatrixBuf(o) == IF o = "hypercube_H_LC" THEN "hamiltonian" ELSE "numpy_array"
\* The buffer that holds the traversal's container.
ContainerBuf(o) == IF o \in Dijkstra_Ops THEN "q" ELSE "s"

\* The allocations of an operation that are tested for failure, in order.
SetupOrder(o) ==
    CASE o \in Dijkstra_Ops -> <<"q", "visited", "distances">>
      [] o = "hypercube_H_LC" -> <<"hamiltonian", "s", "visited">>
      [] o = "hypercube_H_SC" -> <<"numpy_array", "s", "visited">>
      [] o = "hypercube_H" -> <<"numpy_array">>
      [] OTHER -> <<"s", "visited", "numpy_array">>

\* The handles the operation's error label tests and releases.
ErrorSet(o) ==
    CASE o = "hypercube_dijkstra_LC" -> {"q", "visited", "distances", "labels"}
      [] o = "hypercube_dijkstra" -> {"q", "visited", "distances"}
      [] o = "hypercube_H_LC" ->
            {"hamiltonian", "hamiltonian_LC", "labels", "s", "visited"}
      [] o = "hypercube_H_SC" -> {"numpy_array", "s", "visited"}
      [] o = "hypercube_H" -> {"numpy_array"}
      [] OTHER -> {"s", "visited", "numpy_array"}

\* The handles the error label inside a traversal helper releases.
HelperErrorSet(o) ==
    IF o \in Dijkstra_Ops THEN {"distances", "q", "visited"}
    ELSE {MatrixBuf(o), "s", "visited"}

\* `if (x) free(x)` over the handles of `set`; G are the never-assigned
\* handles of `set` whose garbage tests non-NULL.
FreedHandles(h, set) ==
    [b \in Buffers |-> IF b \in set /\ h[b] \in {"live", "freed"}
                       THEN "freed" ELSE h[b]]
FreedCounts(h, r, set) ==
    [b \in Buffers |-> IF b \in set /\ h[b] \in {"live", "freed"}
                       THEN r[b] + 1 ELSE r[b]]
FreedUB(h, set, G) ==
    (IF \E b \in set : h[b] = "freed" THEN {"double_free"} ELSE {})
    \cup (IF \E b \in set : h[b] = "uninit" THEN {"uninit_read"} ELSE {})
    \cup (IF G # {} THEN {"wild_free"} ELSE {})

\* The values an operation hands back.
NoResult == [kind |-> "none", data |-> <<>>, size |-> 0]
NullResult == [kind |-> "NULL", data |-> <<>>, size |-> 0]
CrashResult == [kind |-> "crash", data |-> <<>>, size |-> 0]
ArrayResult(a) == [kind |-> "array", data |-> a, size |-> Len(a)]
MatrixResult(m) == [kind |-> "matrix", data |-> m, size |-> 0]
TupleResult(m, n) == [kind |-> "tuple", data |-> m, size |-> n]

\* ---------------------------------------------------------- variables
VARIABLES
    op, N, p, NR,          \* the call: operation and arguments
    pc,                    \* position in the operation
    handle, released, ub,  \* each handle's state, releases per buffer, UB seen
    s, q,                  \* stack / queue contents (bottom..top, head..tail)
    visited, labels, distances,
    hamiltonian, hamiltonian_LC,
    site, cluster_index, cluster_size, total_size,
    largest_cluster_size, largest_cluster_index,
    i, sizes, error_flag,  \* hypercube_clusters: realisation, result array, flag
    helper_failed,         \* a traversal helper took its error path in this call
    retained, ndraws,      \* history of the traversal: edges drawn below p,
                           \* draws per edge
    atBreak,               \* history: <<largest size, its index, clusters grown>>
                           \* when the exit test first held
    nenq, ndeq,            \* history: enqueues and dequeues per site
    result

args == <<op, N, p, NR>>
mem == <<handle, released, ub>>
containers == <<s, q>>
arrays == <<visited, labels, distances>>
matrices == <<hamiltonian, hamiltonian_LC>>
driver == <<site, cluster_index, cluster_size, total_size,
            largest_cluster_size, largest_cluster_index>>
realisations == <<i, sizes, error_flag>>
history == <<retained, ndraws, atBreak, nenq, ndeq>>
vars == <<args, pc, mem, containers, arrays, matrices, driver, realisations,
          helper_failed, history, result>>

NH == Order(N)

InitState(ops) ==
    /\ op \in ops
    /\ N \in 1 .. MaxN
    /\ p \in Probabilities
    /\ NR \in (IF op = "hypercube_clusters" THEN 0 .. MaxNR ELSE {1})
    /\ pc = "entry"
    /\ handle = [b \in Buffers |-> "uninit"]
    /\ released = [b \in Buffers |-> 0]
    /\ ub = {}
    /\ s = <<>> /\ q = <<>>
    /\ visited = <<>> /\ labels = <<>> /\ distances = <<>>
    /\ hamiltonian = <<>> /\ hamiltonian_LC = <<>>
    /\ site = 0 /\ cluster_index = 0 /\ cluster_size = 0 /\ total_size = 0
    /\ largest_cluster_size = 0 /\ largest_cluster_index = 0
    /\ i = 0 /\ sizes = <<>> /\ error_flag = 0
    /\ helper_failed = FALSE
    /\ retained = {} /\ ndraws = <<>>
    /\ atBreak = <<>>
    /\ nenq = <<>> /\ ndeq = <<>>
    /\ result = NoResult

Init == InitState(Ops)

\* PyArg_ParseTuple, pyobject_to_ul and check_args at the head of every
\* operation: a rejected call jumps to the error label.
ParseArgs ==
    /\ pc = "entry"
    /\ pc' = IF check_args(N, NR, p) THEN "setup" ELSE "error"
    /\ UNCHANGED <<args, mem, containers, arrays, matrices, driver,
                   realisations, helper_failed, history, result>>

\* ------------------------------------------------------------- setup
AllEdges(n) == {Edge(u, Flip(u, b)) : u \in Sites(n), b \in Bits(n)}

\* The handles after the checked allocations: those before position `failAt`
\* succeeded, the one at `failAt` returned NULL, the later ones are not yet
\* assigned.  failAt = Len(order) + 1: none failed.
HandlesAfterSetup(order, failAt) ==
    [b \in Buffers |->
        IF \E k \in 1 .. Len(order) : order[k] = b /\ k < failAt THEN "live"
        ELSE IF failAt <= Len(order) /\ order[failAt] = b THEN "null"
        ELSE "uninit"]

\* The allocations at the head of each operation, with the initial contents
\* of the arrays.  labels comes from an unchecked calloc: when that fails,
\* the fill loop writes through NULL.
Setup ==
    /\ pc = "setup"
    /\ \E failAt \in 1 .. (Len(SetupOrder(op)) + 1), labelsOK \in BOOLEAN :
         LET ok == failAt = Len(SetupOrder(op)) + 1
             h == HandlesAfterSetup(SetupOrder(op), failAt)
         IN  /\ (labelsOK = FALSE) => (ok /\ op \in LC_Ops)
             /\ handle' = IF ok /\ op \in LC_Ops
                          THEN [h EXCEPT !["labels"] =
                                    IF labelsOK THEN "live" ELSE "null"]
                          ELSE h
             /\ ub' = IF labelsOK THEN ub ELSE ub \cup {"null_deref"}
             /\ pc' = IF ~ok THEN "error"
                      ELSE IF ~labelsOK THEN "crashed"
                      ELSE IF op \in LC_Ops \cup {"hypercube_clusters", "hypercube_H"}
                           THEN "loop" ELSE "call"
             /\ result' = IF labelsOK THEN result ELSE CrashResult
             /\ visited' = IF ok /\ labelsOK /\ op \in DFS_H_Ops \cup Dijkstra_Ops
                           THEN [x \in Sites(N) |-> FALSE] ELSE visited
             /\ distances' = IF ok /\ labelsOK /\ op \in Dijkstra_Ops
                             THEN [x \in Sites(N) |-> ULONG_MAX] ELSE distances
             /\ labels' = IF ok /\ labelsOK /\ op \in LC_Ops
                          THEN [x \in Sites(N) |-> ULONG_MAX] ELSE labels
             /\ hamiltonian' = IF ok /\ labelsOK /\ op \in DFS_H_Ops \cup {"hypercube_H"}
                               THEN ZeroMatrix(N) ELSE hamiltonian
             /\ ndraws' = IF ok /\ labelsOK
                          THEN [e \in AllEdges(N) |-> 0] ELSE ndraws
             /\ nenq' = IF ok /\ labelsOK /\ op \in Dijkstra_Ops
                         THEN [x \in Sites(N) |-> 0] ELSE nenq
             /\ ndeq' = IF ok /\ labelsOK /\ op \in Dijkstra_Ops
                         THEN [x \in Sites(N) |-> 0] ELSE ndeq
    /\ UNCHANGED <<args, released, containers, hamiltonian_LC, driver,
                   realisations, helper_failed, retained, atBreak>>

\* ------------------------------------------------- stack and queue
\* setup_stack(NH), setup_queue(NH): the capacity is the graph order.
Capacity(n) == Order(n)
\* push returns 1 (overflow) when the stack is full.
push_overflows(st, n) == Len(st) >= Capacity(n)
push(st, x) == Append(st, x)
top_of(st) == st[Len(st)]
pop(st) == SubSeq(st, 1, Len(st) - 1)
\* enqueue sets its error when the queue is full.
enqueue_overflows(qu, n) == Len(qu) >= Capacity(n)
enqueue(qu, x) == Append(qu, x)
empty(qu) == Len(qu) = 0

\* ------------------------------------------------- traversal helpers
\* new_cost = distances[u] + 1, in unsigned long arithmetic.
new_cost_same(d) == d
new_cost_plus2(d) == IF d = ULONG_MAX THEN 0 ELSE d + 2
new_cost(d) == IF d = ULONG_MAX THEN 0 ELSE d + 1

\* if (!visited[v]) in the for loop of a traversal helper.
is_visited_never(vis, v) == FALSE
is_visited(vis, v) == vis[v]

\* if (new_cost < old_cost)
relaxes_le(new, old) == new <= old
relaxes(new, old) == new < old

\* The history of one draw on edge {u, v} with outcome `below`.
Drawn(st, u, v, below) ==
    [st EXCEPT !.nd = [@ EXCEPT ![Edge(u, v)] = @ + 1],
               !.ret = IF below THEN @ \cup {Edge(u, v)} ELSE @]

\* The for loop of dijkstra over the bit positions k .. n-1 of site u.
\* st = [q, dist, fail, ret, nd, enq]; vis is visited[] with u marked; B are the
\* positions whose draw comes out below p.
RECURSIVE dijkstra_for(_, _, _, _, _, _)
dijkstra_for(st, u, k, n, vis, B) ==
    IF k >= n \/ st.fail THEN st
    ELSE LET v == Flip(u, k) IN
         IF is_visited(vis, v) THEN dijkstra_for(st, u, k + 1, n, vis, B)
         ELSE LET d == Drawn(st, u, v, k \in B) IN
              IF k \in B /\ relaxes(new_cost(st.dist[u]), st.dist[v])
              THEN IF enqueue_overflows(st.q, n)
                   THEN [d EXCEPT !.fail = TRUE]
                   ELSE dijkstra_for(
                          [d EXCEPT !.q = enqueue(@, v),
                                    !.enq = [@ EXCEPT ![v] = @ + 1],
                                    !.dist = [@ EXCEPT ![v] = new_cost(st.dist[u])]],
                          u, k + 1, n, vis, B)
              ELSE dijkstra_for(d, u, k + 1, n, vis, B)

\* The for loop of grow_H_cluster over the bit positions k .. n-1 of site u.
\* st = [s, H, fail, ret, nd].
RECURSIVE grow_H_cluster_for(_, _, _, _, _, _)
grow_H_cluster_for(st, u, k, n, vis, B) ==
    IF k >= n \/ st.fail THEN st
    ELSE LET v == Flip(u, k) IN
         IF is_visited(vis, v) THEN grow_H_cluster_for(st, u, k + 1, n, vis, B)
         ELSE LET d == Drawn(st, u, v, k \in B) IN
              IF k \in B
              THEN IF push_overflows(st.s, n)
                   THEN [d EXCEPT !.fail = TRUE]
                   ELSE grow_H_cluster_for(
                          [d EXCEPT !.s = push(@, v),
                                    !.H = [@ EXCEPT ![u][v] = 1, ![v][u] = 1]],
                          u, k + 1, n, vis, B)
              ELSE grow_H_cluster_for(
                          [d EXCEPT !.H = [@ EXCEPT ![u][v] = 0, ![v][u] = 0]],
                          u, k + 1, n, vis, B)

\* The for loop of DFS_hypercube over the bit positions k .. n-1 of site u.
\* st = [s, fail, ret, nd].
RECURSIVE DFS_hypercube_for(_, _, _, _, _, _)
DFS_hypercube_for(st, u, k, n, vis, B) ==
    IF k >= n \/ st.fail THEN st
    ELSE LET v == Flip(u, k) IN
         IF is_visited(vis, v) THEN DFS_hypercube_for(st, u, k + 1, n, vis, B)
         ELSE LET d == Drawn(st, u, v, k \in B) IN
              IF k \in B
              THEN IF push_overflows(st.s, n)
                   THEN [d EXCEPT !.fail = TRUE]
                   ELSE DFS_hypercube_for([d EXCEPT !.s = push(@, v)],
                                          u, k + 1, n, vis, B)
              ELSE DFS_hypercube_for(d, u, k + 1, n, vis, B)

\* The bit positions of u whose neighbour is unvisited: the draws of one
\* loop iteration.
Candidates(u, n, vis) == {b \in Bits(n) : ~is_visited(vis, Flip(u, b))}

\* A read or write of a buffer of `set` after its release.
StaleUse(h, set) ==
    IF \E b \in set : h[b] = "freed" THEN {"use_after_free"} ELSE {}

FatalUB == {"use_after_free", "double_free", "wild_free"}
\* What a returning step may hand back: its value, or an abort when the
\* step touched released or never-allocated memory.
Outcomes(u, r) == IF u \cap FatalUB # {} THEN {r, CrashResult} ELSE {r}
PcOf(r) == IF r.kind = "crash" THEN "crashed" ELSE "done"

\* The error label at the end of a traversal helper (dijkstra lines 72-79,
\* grow_H_cluster lines 378-385): it releases its arguments and returns.
HelperErrorHandles(h, o) == FreedHandles(h, HelperErrorSet(o))
HelperErrorCounts(h, r, o) == FreedCounts(h, r, HelperErrorSet(o))
HelperErrorUB(h, o) == FreedUB(h, HelperErrorSet(o), {})

\* The sites in ascending order, as a sequence, that satisfy keep.
RECURSIVE Collect(_, _, _, _)
Collect(k, n, keep, val) ==
    IF k >= n THEN <<>>
    ELSE (IF keep[k] THEN <<val[k]>> ELSE <<>>) \o Collect(k + 1, n, keep, val)

\* ------------------------------------------- single-cluster operations
\* hypercube_dijkstra lines 258-262 and hypercube_H_SC lines 578-583: the
\* call of the helper from site 0, up to the helper's first loop test.
SC_start ==
    /\ pc = "call"
    /\ site' = 0 /\ cluster_size' = 0
    /\ distances' = IF op \in Dijkstra_Ops
                    THEN [distances EXCEPT ![0] = 0] ELSE distances
    /\ q' = IF op \in Dijkstra_Ops THEN enqueue(q, 0) ELSE q
    /\ s' = IF op \in Dijkstra_Ops THEN s ELSE push(s, 0)
    /\ nenq' = IF op \in Dijkstra_Ops THEN [nenq EXCEPT ![0] = @ + 1] ELSE nenq
    /\ pc' = "helper"
    /\ UNCHANGED <<args, mem, visited, labels, matrices, cluster_index,
                   total_size, largest_cluster_size, largest_cluster_index,
                   realisations, helper_failed, retained, ndraws, atBreak,
                   ndeq, result>>

\* One iteration of the while loop of dijkstra (lines 37-69), with the loop
\* test that follows it and, on a queue error, the helper's error label.
dijkstra_step ==
    /\ pc = "helper" /\ op \in Dijkstra_Ops /\ ~empty(q)
    /\ LET u == Head(q)
           vis == [visited EXCEPT ![u] = TRUE]
       IN \E B \in DrawSets(u, Candidates(u, N, vis), p) :
            LET st == dijkstra_for([q |-> Tail(q), dist |-> distances,
                                    fail |-> FALSE, ret |-> retained,
                                    nd |-> ndraws, enq |-> nenq],
                                   u, 0, N, vis, B)
            IN  /\ visited' = vis
                /\ cluster_size' = cluster_size + 1
                /\ labels' = IF op \in LC_Ops
                             THEN [labels EXCEPT ![u] = cluster_index]
                             ELSE labels
                /\ q' = st.q /\ distances' = st.dist
                /\ retained' = st.ret /\ ndraws' = st.nd
                /\ nenq' = st.enq
                /\ ndeq' = [ndeq EXCEPT ![u] = @ + 1]
                /\ helper_failed' = (helper_failed \/ st.fail)
                /\ handle' = IF st.fail THEN HelperErrorHandles(handle, op)
                             ELSE handle
                /\ released' = IF st.fail
                               THEN HelperErrorCounts(handle, released, op)
                               ELSE released
                /\ ub' = IF st.fail THEN ub \cup HelperErrorUB(handle, op)
                         ELSE ub
                /\ pc' = IF st.fail \/ empty(st.q) THEN "returned" ELSE "helper"
    /\ UNCHANGED <<args, s, matrices, site, cluster_index, total_size,
                   largest_cluster_size, largest_cluster_index, realisations,
                   atBreak, result>>

\* One iteration of the while loop of grow_H_cluster (lines 332-374), with
\* the loop test that follows it and, on a push failure, the error label.
grow_H_cluster_step ==
    /\ pc = "helper" /\ op \in DFS_H_Ops /\ Len(s) > 0
    /\ LET u == top_of(s) IN
       IF visited[u]
       THEN /\ s' = pop(s)
            /\ pc' = IF Len(pop(s)) > 0 THEN "helper" ELSE "returned"
            /\ UNCHANGED <<mem, visited, labels, hamiltonian, cluster_size,
                           retained, ndraws, helper_failed>>
       ELSE LET vis == [visited EXCEPT ![u] = TRUE]
            IN \E B \in DrawSets(u, Candidates(u, N, vis), p) :
                 LET st == grow_H_cluster_for([s |-> pop(s), H |-> hamiltonian,
                                fail |-> FALSE, ret |-> retained,
                                nd |-> ndraws], u, 0, N, vis, B)
                 IN  /\ visited' = vis
                     /\ cluster_size' = cluster_size + 1
                     /\ labels' = IF op \in LC_Ops
                                  THEN [labels EXCEPT ![u] = cluster_index]
                                  ELSE labels
                     /\ s' = st.s /\ hamiltonian' = st.H
                     /\ retained' = st.ret /\ ndraws' = st.nd
                     /\ helper_failed' = (helper_failed \/ st.fail)
                     /\ handle' = IF st.fail THEN HelperErrorHandles(handle, op)
                                  ELSE handle
                     /\ released' = IF st.fail
                                    THEN HelperErrorCounts(handle, released, op)
                                    ELSE released
                     /\ ub' = IF st.fail THEN ub \cup HelperErrorUB(handle, op)
                              ELSE ub
                     /\ pc' = IF st.fail \/ Len(st.s) = 0 THEN "returned"
                              ELSE "helper"
    /\ UNCHANGED <<args, q, distances, hamiltonian_LC, site, cluster_index,
                   total_size, largest_cluster_size, largest_cluster_index,
                   realisations, atBreak, nenq, ndeq, result>>

\* ------------------------------------------- largest-cluster drivers
\* if (!visited[site]) of the enumeration loop (lines 151, 459).
is_unvisited_always(vis, x) == TRUE
is_unvisited(vis, x) == ~vis[x]

\* The first site from `from` on that the enumeration loop grows a cluster
\* from; the order n when there is none.
NextSeed(vis, from, n) ==
    IF \E x \in from .. (n - 1) : is_unvisited(vis, x)
    THEN CHOOSE x \in from .. (n - 1) :
            /\ is_unvisited(vis, x)
            /\ \A y \in from .. (x - 1) : ~is_unvisited(vis, y)
    ELSE n

\* early exit condition (lines 166, 472), in unsigned long arithmetic: the
\* difference wraps when total exceeds the order.
early_exit_never(largest, n, total) == FALSE
early_exit_off_by_one(largest, n, total) ==
    IF total > n THEN FALSE ELSE largest + 1 >= n - total
early_exit(largest, n, total) ==
    IF total > n THEN FALSE ELSE largest >= n - total

\* The head of the enumeration loop of hypercube_dijkstra_LC (lines 149-155)
\* and hypercube_H_LC (lines 456-462): advance to the next unvisited site and
\* call the helper from it, up to the helper's first loop test; or leave the
\* loop when no site is left.
LC_next_site ==
    /\ pc = "loop" /\ op \in LC_Ops
    /\ LET x == NextSeed(visited, site, NH)
           reentry == op \in DFS_H_Ops /\ Len(s) # 0
       IN  /\ site' = x
           /\ IF x = NH
              THEN /\ pc' = "copy"
                   /\ ub' = ub \cup StaleUse(handle, {"visited"})
                   /\ UNCHANGED <<handle, released, containers, distances,
                                  cluster_size, helper_failed, nenq>>
              ELSE /\ cluster_size' = 0
                   /\ distances' = IF op \in Dijkstra_Ops
                                   THEN [distances EXCEPT ![x] = 0]
                                   ELSE distances
                   /\ q' = IF op \in Dijkstra_Ops THEN enqueue(q, x) ELSE q
                   /\ nenq' = IF op \in Dijkstra_Ops
                               THEN [nenq EXCEPT ![x] = @ + 1] ELSE nenq
                   /\ s' = IF op \in Dijkstra_Ops \/ reentry THEN s
                           ELSE push(s, x)
                   /\ helper_failed' = (helper_failed \/ reentry)
                   /\ handle' = IF reentry THEN HelperErrorHandles(handle, op)
                                ELSE handle
                   /\ released' = IF reentry
                                  THEN HelperErrorCounts(handle, released, op)
                                  ELSE released
                   /\ ub' = ub \cup StaleUse(handle, {"visited", ContainerBuf(op)})
                               \cup (IF reentry THEN HelperErrorUB(handle, op)
                                     ELSE {})
                   /\ pc' = IF reentry THEN "returned" ELSE "helper"
    /\ UNCHANGED <<args, visited, labels, matrices, cluster_index, total_size,
                   largest_cluster_size, largest_cluster_index, realisations,
                   retained, ndraws, atBreak, ndeq, result>>

\* total_size += cluster_size (lines 157, 463).
total_size_add_seed(total, size) == total + size + 1
total_size_add(total, size) == total + size

\* The enumeration loop after the helper has returned (lines 157-166,
\* 463-472): the bookkeeping and the early exit.  With exhaustive = TRUE the
\* loop is the same loop without its break.
LC_done(exhaustive) ==
    /\ pc = "returned" /\ op \in LC_Ops
    /\ LET total == total_size_add(total_size, cluster_size)
           bigger == cluster_size > largest_cluster_size
           largest == IF bigger THEN cluster_size ELSE largest_cluster_size
           index == IF bigger THEN cluster_index ELSE largest_cluster_index
           exit == early_exit(largest, NH, total)
       IN  /\ total_size' = total
           /\ largest_cluster_size' = largest
           /\ largest_cluster_index' = index
           /\ cluster_index' = cluster_index + 1
           /\ atBreak' = IF exit /\ atBreak = <<>>
                         THEN <<largest, index, cluster_index + 1>>
                         ELSE atBreak
           /\ pc' = IF exit /\ ~exhaustive THEN "copy" ELSE "loop"
           /\ site' = IF exit /\ ~exhaustive THEN site ELSE site + 1
    /\ UNCHANGED <<args, mem, containers, arrays, matrices, cluster_size,
                   realisations, helper_failed, retained, ndraws, nenq, ndeq,
                   result>>

LC_cluster_done == LC_done(FALSE)
LC_cluster_done_exhaustive == LC_done(TRUE)

\* ------------------------------------------------ returning a result
\* The frees before a return statement and the return: the buffers of
\* freeSet are released, those of useSet are read or handed out.
ReturnWith(r, freeSet, useSet, extraUB) ==
    LET u == ub \cup StaleUse(handle, useSet) \cup FreedUB(handle, freeSet, {})
                \cup extraUB
    IN  /\ handle' = FreedHandles(handle, freeSet)
        /\ released' = FreedCounts(handle, released, freeSet)
        /\ ub' = u
        /\ result' \in Outcomes(u, r)
        /\ pc' = PcOf(result')

\* A copy loop that stores more entries than its buffer was allocated for.
Overrun(written, allocated) ==
    IF written > allocated THEN {"buffer_overflow"} ELSE {}

\* hypercube_dijkstra lines 264-286: allocate finite_distances, copy the
\* distances of the visited sites, free, return the array.
hypercube_dijkstra_finish ==
    /\ pc = "returned" /\ op = "hypercube_dijkstra"
    /\ \E mallocOK \in BOOLEAN :
         IF mallocOK
         THEN LET data == Collect(0, NH, visited, distances)
              IN ReturnWith([kind |-> "array", data |-> data,
                             size |-> cluster_size],
                            {"distances", "q", "visited"},
                            {"distances", "visited"},
                            Overrun(Len(data), cluster_size))
         ELSE pc' = "error" /\ UNCHANGED <<mem, result>>
    /\ UNCHANGED <<args, containers, arrays, matrices, driver, realisations,
                   helper_failed, history>>

\* hypercube_H_SC lines 585-598: build the (matrix, size) tuple, free,
\* return it.
hypercube_H_SC_finish ==
    /\ pc = "returned" /\ op = "hypercube_H_SC"
    /\ \E tupleOK \in BOOLEAN :
         IF tupleOK
         THEN ReturnWith(TupleResult(hamiltonian, cluster_size),
                         {"s", "visited"}, {"numpy_array", "s"}, {})
         ELSE pc' = "error" /\ UNCHANGED <<mem, result>>
    /\ UNCHANGED <<args, containers, arrays, matrices, driver, realisations,
                   helper_failed, history>>

\* hypercube_dijkstra_LC lines 170-192: allocate finite_distances, copy the
\* distances of the sites labelled with the largest cluster's index, free,
\* return the array.
hypercube_dijkstra_LC_finish ==
    /\ pc = "copy" /\ op = "hypercube_dijkstra_LC"
    /\ \E mallocOK \in BOOLEAN :
         IF mallocOK
         THEN LET data == Collect(0, NH,
                             [x \in Sites(N) |-> labels[x] = largest_cluster_index],
                             distances)
              IN ReturnWith([kind |-> "array", data |-> data,
                             size |-> largest_cluster_size],
                            {"distances", "labels", "q", "visited"},
                            {"distances", "labels"},
                            Overrun(Len(data), largest_cluster_size))
         ELSE pc' = "error" /\ UNCHANGED <<mem, result>>
    /\ UNCHANGED <<args, containers, arrays, matrices, driver, realisations,
                   helper_failed, history>>

\* The copy pass of hypercube_H_LC (lines 484-499): for every site a with
\* the largest cluster's label and every k, the entry [a][k] of hamiltonian
\* is stored to [a][k] of hamiltonian itself and to [k][a] of hamiltonian_LC.
copy_largest(H, lab, idx, n) ==
    [k \in Sites(n) |-> [a \in Sites(n) |->
        IF lab[a] = idx THEN H[a][k] ELSE 0]]

\* hypercube_H_LC lines 476-513: allocate hamiltonian_LC, copy, build the
\* tuple, free, return it.
hypercube_H_LC_finish ==
    /\ pc = "copy" /\ op = "hypercube_H_LC"
    /\ \E failAt \in {"hamiltonian_LC", "result", "none"} :
         IF failAt = "hamiltonian_LC"
         THEN /\ handle' = [handle EXCEPT !["hamiltonian_LC"] = "null"]
              /\ pc' = "error"
              /\ UNCHANGED <<released, ub, hamiltonian_LC, result>>
         ELSE LET copy == copy_largest(hamiltonian, labels,
                                       largest_cluster_index, N)
                  h == [handle EXCEPT !["hamiltonian_LC"] = "live"]
              IN  /\ hamiltonian_LC' = copy
                  /\ IF failAt = "result"
                     THEN /\ handle' = h
                          /\ ub' = ub \cup StaleUse(handle, {"hamiltonian", "labels"})
                          /\ pc' = "error"
                          /\ UNCHANGED <<released, result>>
                     ELSE LET u == ub \cup StaleUse(handle, {"hamiltonian", "labels", "s"})
                                      \cup FreedUB(handle, {"hamiltonian", "s", "labels"}, {})
                          IN  /\ handle' = FreedHandles(h, {"hamiltonian", "s", "labels"})
                              /\ released' = FreedCounts(handle, released,
                                                {"hamiltonian", "s", "labels"})
                              /\ ub' = u
                              /\ result' \in Outcomes(u,
                                    TupleResult(copy, largest_cluster_size))
                              /\ pc' = PcOf(result')
    /\ UNCHANGED <<args, containers, arrays, hamiltonian, driver, realisations,
                   helper_failed, history>>

\* ------------------------------------------------ hypercube_clusters
\* The head of the realisation loop (lines 734-742): reset visited and call
\* DFS_hypercube from site 0, up to its first loop test (lines 786-794).
clusters_next ==
    /\ pc = "loop" /\ op = "hypercube_clusters" /\ i < NR
    /\ visited' = [x \in Sites(N) |-> FALSE]
    /\ retained' = {} /\ ndraws' = [e \in AllEdges(N) |-> 0]
    /\ cluster_size' = 0
    /\ IF Len(s) # 0
       THEN error_flag' = -1 /\ pc' = "returned" /\ s' = s
       ELSE error_flag' = error_flag /\ pc' = "helper" /\ s' = push(s, 0)
    /\ UNCHANGED <<args, mem, q, labels, distances, matrices, site,
                   cluster_index, total_size, largest_cluster_size,
                   largest_cluster_index, i, sizes, helper_failed, atBreak,
                   nenq, ndeq, result>>

\* One iteration of the while loop of DFS_hypercube (lines 794-825), with
\* the loop test that follows it; a push failure sets the flag and returns 0.
DFS_hypercube_step ==
    /\ pc = "helper" /\ op = "hypercube_clusters" /\ Len(s) > 0
    /\ LET u == top_of(s) IN
       IF visited[u]
       THEN /\ s' = pop(s)
            /\ pc' = IF Len(pop(s)) > 0 THEN "helper" ELSE "returned"
            /\ UNCHANGED <<visited, cluster_size, retained, ndraws, error_flag>>
       ELSE LET vis == [visited EXCEPT ![u] = TRUE]
            IN \E B \in DrawSets(u, Candidates(u, N, vis), p) :
                 LET st == DFS_hypercube_for([s |-> pop(s), fail |-> FALSE,
                                ret |-> retained, nd |-> ndraws],
                                u, 0, N, vis, B)
                 IN  /\ visited' = vis
                     /\ cluster_size' = IF st.fail THEN 0 ELSE cluster_size + 1
                     /\ error_flag' = IF st.fail THEN -1 ELSE error_flag
                     /\ s' = st.s
                     /\ retained' = st.ret /\ ndraws' = st.nd
                     /\ pc' = IF st.fail \/ Len(st.s) = 0 THEN "returned"
                              ELSE "helper"
    /\ UNCHANGED <<args, mem, q, labels, distances, matrices, site,
                   cluster_index, total_size, largest_cluster_size,
                   largest_cluster_index, i, sizes, helper_failed, atBreak,
                   nenq, ndeq, result>>

\* The realisation loop after DFS_hypercube has returned (lines 742-745):
\* store the size, test the flag.
clusters_done ==
    /\ pc = "returned" /\ op = "hypercube_clusters"
    /\ sizes' = Append(sizes, cluster_size)
    /\ i' = IF error_flag = -1 THEN i ELSE i + 1
    /\ pc' = IF error_flag = -1 THEN "error" ELSE "loop"
    /\ UNCHANGED <<args, mem, containers, arrays, matrices, driver,
                   error_flag, helper_failed, history, result>>

\* hypercube_clusters lines 747-752: free the stack and visited, return the
\* array of sizes.
clusters_return ==
    /\ pc = "loop" /\ op = "hypercube_clusters" /\ i >= NR
    /\ ReturnWith(ArrayResult(sizes), {"s", "visited"}, {}, {})
    /\ UNCHANGED <<args, containers, arrays, matrices, driver, realisations,
                   helper_failed, history>>

\* ------------------------------------------------------- hypercube_H
\* The inner loop of hypercube_H (lines 651-672) over the bit positions
\* k .. n-1 of `row`.  st = [H, nd].
RECURSIVE hypercube_H_for_one_sided(_, _, _, _, _)
hypercube_H_for_one_sided(st, row, k, n, B) ==
    IF k >= n THEN st
    ELSE LET col == Flip(row, k)
             d == [st EXCEPT !.nd = [@ EXCEPT ![Edge(row, col)] = @ + 1]]
             bit == IF k \in B THEN 1 ELSE 0
         IN hypercube_H_for_one_sided(
              [d EXCEPT !.H = [@ EXCEPT ![row][col] = bit]], row, k + 1, n, B)

RECURSIVE hypercube_H_for(_, _, _, _, _)
hypercube_H_for(st, row, k, n, B) ==
    IF k >= n THEN st
    ELSE LET col == Flip(row, k)
             d == [st EXCEPT !.nd = [@ EXCEPT ![Edge(row, col)] = @ + 1]]
             bit == IF k \in B THEN 1 ELSE 0
         IN hypercube_H_for(
              [d EXCEPT !.H = [@ EXCEPT ![row][col] = bit, ![col][row] = bit]],
              row, k + 1, n, B)

\* One row of the outer loop of hypercube_H (lines 649-673).
hypercube_H_row ==
    /\ pc = "loop" /\ op = "hypercube_H" /\ site < NH
    /\ \E B \in DrawSets(site, Bits(N), p) :
         LET st == hypercube_H_for([H |-> hamiltonian, nd |-> ndraws],
                                   site, 0, N, B)
         IN  /\ hamiltonian' = st.H
             /\ ndraws' = st.nd
    /\ site' = site + 1
    /\ UNCHANGED <<args, pc, mem, containers, arrays, hamiltonian_LC, retained,
                   cluster_index, cluster_size, total_size,
                   largest_cluster_size, largest_cluster_index, realisations,
                   helper_failed, atBreak, nenq, ndeq, result>>

\* hypercube_H line 675: return the matrix.
hypercube_H_return ==
    /\ pc = "loop" /\ op = "hypercube_H" /\ site >= NH
    /\ ReturnWith(MatrixResult(hamiltonian), {}, {"numpy_array"}, {})
    /\ UNCHANGED <<args, containers, arrays, matrices, driver, realisations,
                   helper_failed, history>>

\* ------------------------------------------------------ error labels
\* The error label of a top-level operation (lines 194-203, 288-296,
\* 515-525, 600-608, 677-679, 754-762): `if (x) free(x)` over its handles,
\* then return NULL.
ErrorLabel ==
    /\ pc = "error"
    /\ \E G \in SUBSET {b \in ErrorSet(op) : handle[b] = "uninit"} :
         LET u == ub \cup FreedUB(handle, ErrorSet(op), G)
         IN  /\ handle' = FreedHandles(handle, ErrorSet(op))
             /\ released' = FreedCounts(handle, released, ErrorSet(op))
             /\ ub' = u
             /\ result' \in Outcomes(u, NullResult)
             /\ pc' = PcOf(result')
    /\ UNCHANGED <<args, containers, arrays, matrices, driver, realisations,
                   helper_failed, history>>

\* The process aborts at a use of released memory.
Abort ==
    /\ pc \notin {"done", "crashed"}
    /\ ub \cap FatalUB # {}
    /\ pc' = "crashed"
    /\ result' = CrashResult
    /\ UNCHANGED <<args, mem, containers, arrays, matrices, driver,
                   realisations, helper_failed, history>>

\* ----------------------------------------------------- specification
Next ==
    \/ ParseArgs
    \/ Setup
    \/ SC_start
    \/ dijkstra_step
    \/ grow_H_cluster_step
    \/ LC_next_site
    \/ LC_cluster_done
    \/ hypercube_dijkstra_finish
    \/ hypercube_H_SC_finish
    \/ hypercube_dijkstra_LC_finish
    \/ hypercube_H_LC_finish
    \/ clusters_next
    \/ DFS_hypercube_step
    \/ clusters_done
    \/ clusters_return
    \/ hypercube_H_row
    \/ hypercube_H_return
    \/ ErrorLabel
    \/ Abort

Spec == Init /\ [][Next]_vars

\* The operations run to completion: the code is single-threaded and
\* synchronous, so a step that can be taken is taken.
SpecLive == Spec /\ WF_vars(Next)

\* The largest-cluster drivers with the break of the enumeration loop
\* removed: the exhaustive enumeration the early exit is compared with.
InitLC == InitState(LC_Ops)

NextExhaustive ==
    \/ ParseArgs
    \/ Setup
    \/ dijkstra_step
    \/ grow_H_cluster_step
    \/ LC_next_site
    \/ LC_cluster_done_exhaustive
    \/ hypercube_dijkstra_LC_finish
    \/ hypercube_H_LC_finish
    \/ ErrorLabel
    \/ Abort

SpecExhaustive == InitLC /\ [][NextExhaustive]_vars

\* ======================================================================
\* Reference definitions used by the properties
\* ======================================================================
Neighbours(E, u, n) == {v \in Sites(n) : Edge(u, v) \in E /\ v # u}

\* Breadth-first search over the edge set E: dist maps the sites found so
\* far to their hop distance, frontier are the sites at distance d.
RECURSIVE BFS(_, _, _, _, _)
BFS(E, n, dist, frontier, d) ==
    IF frontier = {} THEN dist
    ELSE LET next == {v \in Sites(n) : dist[v] = ULONG_MAX
                        /\ \E u \in frontier : v \in Neighbours(E, u, n)}
         IN BFS(E, n, [x \in Sites(n) |-> IF x \in next THEN d + 1 ELSE dist[x]],
                next, d + 1)

\* Hop distance from root to every site over E; ULONG_MAX where unreachable.
HopDistance(E, n, root) ==
    BFS(E, n, [x \in Sites(n) |-> IF x = root THEN 0 ELSE ULONG_MAX], {root}, 0)

\* The exact adjacency matrix of the n-dimensional hypercube.
ExactAdjacency(n) ==
    [a \in Sites(n) |-> [b \in Sites(n) |->
        IF \E k \in Bits(n) : b = Flip(a, k) THEN 1 ELSE 0]]

Symmetric(M, n) == \A a, b \in Sites(n) : M[a][b] = M[b][a]

\* ======================================================================
\* C1: with p = 0 every cluster grown, from whatever seed, has size exactly
\* 1 when its helper returns: DFS_hypercube's return value, grow_H_cluster's
\* *size and dijkstra's *number_visited; so has every size recorded by
\* hypercube_clusters.
\* ======================================================================
C1_ZeroProbabilitySizeOne ==
    p = 0 =>
        /\ (pc = "returned" => cluster_size = 1)
        /\ \A k \in 1 .. Len(sizes) : sizes[k] = 1

\* A cluster grown with p = 0 from a seed other than site 0 has returned.
C1_Witness ==
    /\ p = 0 /\ pc = "returned" /\ op \in LC_Ops /\ site > 0
    /\ cluster_size = 1

\* ======================================================================
\* C2: with p = 1, DFS_hypercube from site 0 on a stack of capacity 2^N
\* returns without error and its size is the graph order 2^N.
\* ======================================================================
C2_FullClusterAtOne ==
    (op = "hypercube_clusters" /\ p = 100 /\ pc = "returned") =>
        (error_flag = 0 /\ cluster_size = NH)

\* ======================================================================
\* C3: with p = 1, the matrix hypercube_H_SC returns is the exact hypercube
\* adjacency: 1 exactly between sites that differ in one bit.
\* ======================================================================
C3_ExactAdjacencyAtOne ==
    (op = "hypercube_H_SC" /\ p = 100 /\ pc = "done" /\ result.kind = "tuple") =>
        result.data = ExactAdjacency(N)

\* ======================================================================
\* C4: when dijkstra returns, the sites it visited are exactly the connected
\* component of its root in the graph of the edges drawn below p, and the
\* recorded distance of each equals its breadth-first hop distance from the
\* root in that graph.
\* ======================================================================
C4_DistancesAreBFS ==
    (op \in Dijkstra_Ops /\ pc = "returned") =>
        LET hop == HopDistance(retained, N, site)
            mine(x) == visited[x] /\ (op \in LC_Ops => labels[x] = cluster_index)
        IN \A x \in Sites(N) :
              /\ mine(x) <=> hop[x] # ULONG_MAX
              /\ mine(x) => distances[x] = hop[x]

\* A traversal has returned with a site at distance 2 from its root.
C4_Witness ==
    /\ op \in Dijkstra_Ops /\ pc = "returned" /\ 0 < p /\ p < 100
    /\ \E x \in Sites(N) : visited[x] /\ distances[x] = 2
    /\ \E x \in Sites(N) : ~visited[x]

\* ======================================================================
\* C5: every constructed adjacency matrix is symmetric, at every step: the
\* matrix grow_H_cluster and hypercube_H write, the matrix of the
\* largest-cluster copy pass, and every matrix handed back.
\* ======================================================================
C5_MatricesSymmetric ==
    /\ hamiltonian # <<>> => Symmetric(hamiltonian, N)
    /\ hamiltonian_LC # <<>> => Symmetric(hamiltonian_LC, N)
    /\ result.kind \in {"tuple", "matrix"} => Symmetric(result.data, N)

\* ======================================================================
\* C6: when the enumeration loop of a largest-cluster driver has ended,
\* every site carries a cluster label (none keeps the unassigned sentinel)
\* and total_size equals the graph order 2^N.
\* ======================================================================
C6_EverySiteLabelled ==
    (op \in LC_Ops /\ pc = "copy") =>
        /\ \A x \in Sites(N) : labels[x] # ULONG_MAX
        /\ total_size = NH

Labelled == {x \in Sites(N) : labels[x] # ULONG_MAX}

\* C6, as amended: at every point of the enumeration a labelled site carries
\* the index of one cluster already begun, the labelled sites outside the
\* cluster being grown number exactly total_size, and once the loop has ended
\* the labelled sites number exactly total_size: each site is counted in one
\* cluster only, and the sites the early exit left unenumerated keep the
\* unassigned sentinel, so total_size may stay below 2^N.
C6_LabelledOnce ==
    (op \in LC_Ops /\ pc \in {"loop", "helper", "returned", "copy"}) =>
        /\ \A x \in Labelled : labels[x] <= cluster_index
        /\ Cardinality({x \in Labelled : labels[x] < cluster_index}) = total_size
        /\ pc \in {"loop", "copy"} => Cardinality(Labelled) = total_size
        /\ total_size <= NH

\* The loop has ended by the early exit with sites left unlabelled, after
\* more than one cluster.
C6_Witness ==
    /\ op \in LC_Ops /\ pc = "copy" /\ cluster_index > 1
    /\ \E x \in Sites(N) : labels[x] = ULONG_MAX
    /\ \E x \in Sites(N) : labels[x] = 1
    /\ total_size < NH

\* ======================================================================
\* C7: the early exit selects what the exhaustive enumeration selects.  In
\* the loop without its break, on every continuation of the draws, the
\* largest size and its index at the end of the enumeration are those the
\* loop had when the exit test first held.
\* ======================================================================
C7_EarlyExitMatchesExhaustive ==
    (op \in LC_Ops /\ pc = "copy" /\ atBreak # <<>>) =>
        /\ largest_cluster_size = atBreak[1]
        /\ largest_cluster_index = atBreak[2]

\* The exhaustive enumeration has ended having grown clusters beyond the
\* point where the exit test first held.
C7_Witness ==
    /\ op \in LC_Ops /\ pc = "copy" /\ atBreak # <<>>
    /\ cluster_index > atBreak[3]
    /\ total_size = NH
    /\ 0 < p /\ p < 100

\* ======================================================================
\* C8: a stack of capacity 2^N suffices for the depth-first growth: push
\* never reports overflow in DFS_hypercube or grow_H_cluster, so neither
\* helper ever takes its failure path.
\* ======================================================================
C8_StackNeverOverflows ==
    op \in DFS_H_Ops \cup {"hypercube_clusters"} =>
        (~helper_failed /\ error_flag = 0 /\ Len(s) <= Capacity(N))

\* ======================================================================
\* C9: when an operation that met a failure has returned, every buffer it
\* had allocated has been released exactly once: none is still allocated,
\* none was released twice, none was used after its release.
\* ======================================================================
C9_FailureReleasesOnce ==
    (pc = "done" /\ (result.kind = "NULL" \/ helper_failed \/ error_flag = -1)) =>
        /\ \A b \in Buffers : handle[b] # "live" /\ released[b] <= 1
        /\ ub \cap {"use_after_free", "double_free"} = {}

\* ======================================================================
\* C10: a failure inside a traversal helper is fatal to the operation: once
\* dijkstra or grow_H_cluster has taken its error path, the operation
\* returns NULL, never an array or a (matrix, size) tuple.
\* ======================================================================
C10_HelperFailureReturnsNull ==
    (pc = "done" /\ helper_failed) => result.kind = "NULL"

\* ======================================================================
\* C11: when an operation has returned a result, no buffer of the call is
\* still allocated except the one handed out as the result.
\* ======================================================================
\* The buffer an operation's return statement hands to its caller.
HandedOut(o) ==
    CASE o = "hypercube_H_LC" -> {"hamiltonian_LC"}
      [] o \in Dijkstra_Ops -> {}
      [] OTHER -> {"numpy_array"}

C11_NoBufferOutlivesCall ==
    (pc = "done" /\ result.kind \in {"array", "matrix", "tuple"}) =>
        \A b \in Buffers \ HandedOut(op) : handle[b] # "live"

\* ======================================================================
\* C12: with N = 2 and p = 0 the enumeration of a largest-cluster driver
\* grows four clusters, one per site, each of size 1, and the largest size
\* it reports is 1.
\* ======================================================================
C12_FourClustersOfOne ==
    (op \in LC_Ops /\ N = 2 /\ p = 0) =>
        /\ (pc = "returned" => cluster_size = 1)
        /\ (pc = "copy" => /\ cluster_index = 4
                           /\ \A x \in Sites(N) : labels[x] = x
                           /\ largest_cluster_size = 1)

\* C12, as amended: with N = 2 and p = 0 every cluster grown has size 1; the
\* enumeration grows three of them, from sites 0, 1 and 2, and leaves by its
\* early exit with site 3 unlabelled; the largest cluster is the first one,
\* and the size reported is 1.
C12_ThreeClustersOfOne ==
    (op \in LC_Ops /\ N = 2 /\ p = 0) =>
        /\ (pc = "returned" => cluster_size = 1)
        /\ (pc = "copy" =>
              /\ cluster_index = 3 /\ total_size = 3
              /\ labels = [x \in Sites(N) |-> IF x < 3 THEN x ELSE ULONG_MAX]
              /\ largest_cluster_size = 1 /\ largest_cluster_index = 0)
        /\ (pc = "done" /\ result.kind \in {"array", "tuple"} => result.size = 1)

\* A largest-cluster driver has returned its result for N = 2, p = 0.
C12_Witness ==
    /\ op \in LC_Ops /\ N = 2 /\ p = 0 /\ pc = "done"
    /\ result.kind \in {"array", "tuple"} /\ cluster_index = 3

\* ======================================================================
\* C13: after the enumeration of a largest-cluster driver, the sites that
\* carry largest_cluster_index are exactly the members of the largest
\* cluster (the connected component, in the graph of the edges drawn below
\* p, that the cluster was grown in), the sites never reached keep the
\* sentinel ULONG_MAX, and the sites the copy pass selects number
\* largest_cluster_size: hypercube_dijkstra_LC writes exactly that many
\* entries into its result.
\* ======================================================================
\* The sites the copy pass selects.
Selected == {x \in Sites(N) : labels[x] = largest_cluster_index}

\* The connected component, over the edges drawn below p, of the seed of the
\* selected cluster; the seed of a cluster is its lowest site.
SelectedComponent ==
    IF Selected = {} THEN {}
    ELSE LET seed == CHOOSE x \in Selected : \A y \in Selected : x <= y
             hop == HopDistance(retained, N, seed)
         IN {x \in Sites(N) : hop[x] # ULONG_MAX}

C13_LargestLabelIsLargestCluster ==
    /\ (op \in LC_Ops /\ pc = "copy") =>
          /\ Selected = SelectedComponent
          /\ Cardinality(Selected) = largest_cluster_size
          /\ \A x \in Sites(N) : ~visited[x] => labels[x] = ULONG_MAX
    /\ (op = "hypercube_dijkstra_LC" /\ pc = "done" /\ result.kind = "array") =>
          /\ Len(result.data) = largest_cluster_size
          /\ result.size = largest_cluster_size
          /\ "buffer_overflow" \notin ub

\* ======================================================================
\* C14: in dijkstra every site is enqueued and dequeued at most once over a
\* whole operation, so the queue of capacity 2^N never overflows and the
\* helper never fails; number_visited counts exactly the sites the call of
\* dijkstra marked visited; hypercube_dijkstra returns a sequence whose
\* length is the size of the cluster of site 0, and its copy loop writes
\* exactly that many entries.
\* ======================================================================
C14_EnqueuedOnce ==
    (op \in Dijkstra_Ops /\ nenq # <<>>) =>
        /\ \A x \in Sites(N) : nenq[x] <= 1 /\ ndeq[x] <= nenq[x]
        /\ Len(q) <= Capacity(N)
        /\ ~helper_failed
        /\ pc \in {"helper", "returned"} =>
              cluster_size =
                Cardinality({x \in Sites(N) :
                    visited[x] /\ (op \in LC_Ops => labels[x] = cluster_index)})
        /\ (op = "hypercube_dijkstra" /\ pc = "done" /\ result.kind = "array") =>
              LET hop == HopDistance(retained, N, 0)
              IN  /\ result.size = Cardinality({x \in Sites(N) : hop[x] # ULONG_MAX})
                  /\ Len(result.data) = result.size
                  /\ "buffer_overflow" \notin ub

\* hypercube_dijkstra has returned after a run in which some site was
\* reached over two retained edges from sites one hop nearer the root.
C14_Witness ==
    /\ op = "hypercube_dijkstra" /\ pc = "done" /\ result.kind = "array"
    /\ \E x \in Sites(N) : \E a, b \in Bits(N) :
          /\ a # b
          /\ Edge(x, Flip(x, a)) \in retained /\ Edge(x, Flip(x, b)) \in retained
          /\ distances[Flip(x, a)] + 1 = distances[x]
          /\ distances[Flip(x, b)] + 1 = distances[x]

\* ======================================================================
\* C15: the matrix hypercube_H_LC returns is the enumeration matrix
\* restricted to the largest cluster: its entry [i][j] is 1 exactly when i
\* and j both carry the largest cluster's label and the edge i-j was recorded
\* connected during the enumeration; every other entry is 0, and the size
\* returned with it is the largest cluster's size.
\* ======================================================================
C15_MatrixRestrictedToLargest ==
    (op = "hypercube_H_LC" /\ pc = "done" /\ result.kind = "tuple") =>
        /\ \A a, b \in Sites(N) :
              result.data[a][b] =
                  IF /\ labels[a] = largest_cluster_index
                     /\ labels[b] = largest_cluster_index
                     /\ hamiltonian[a][b] = 1
                  THEN 1 ELSE 0
        /\ result.size = largest_cluster_size

\* ======================================================================
\* C16: a call with invalid arguments is rejected before any buffer is
\* allocated: once the arguments have been checked, no allocation has been
\* performed, none is released, and the operation ends by returning NULL.
\* ======================================================================
C16_RejectedBeforeAllocation ==
    (~check_args(N, NR, p) /\ pc # "entry") =>
        /\ \A b \in Buffers : handle[b] = "uninit" /\ released[b] = 0
        /\ pc \in {"error", "done"}
        /\ pc = "done" => result = NullResult

\* ======================================================================
\* C17: hypercube_clusters produces exactly NR sizes, each from a run of
\* its own: at the start of every realisation visited is all-false and the
\* traversal starts from site 0 alone; the size recorded is the size of
\* site 0's connected component in the graph of that realisation's edges
\* drawn below p, a value in 1 .. 2^N.
\* ======================================================================
C17_IndependentRealisations ==
    op = "hypercube_clusters" =>
        /\ (pc = "helper" /\ cluster_size = 0) =>
              /\ \A x \in Sites(N) : ~visited[x]
              /\ s = <<0>>
              /\ retained = {}
        /\ pc = "returned" =>
              LET hop == HopDistance(retained, N, 0)
              IN  /\ cluster_size =
                        Cardinality({x \in Sites(N) : hop[x] # ULONG_MAX})
                  /\ 1 <= cluster_size /\ cluster_size <= NH
        /\ \A k \in 1 .. Len(sizes) : 1 <= sizes[k] /\ sizes[k] <= NH
        /\ (pc = "done" /\ result.kind = "array") =>
              result.size = NR /\ result.data = sizes

\* ======================================================================
\* C18: hypercube_H visits each (site, bit position) slot exactly once, in
\* row order, with one draw per slot and no traversal state: after `site`
\* rows every edge has been drawn once for each of its endpoints below
\* `site`; an entry is 1 only between sites that differ in exactly one bit,
\* and every decision is written to [row][col] and [col][row] alike.
\* ======================================================================
C18_FullGraphSlotsOnce ==
    (op = "hypercube_H" /\ hamiltonian # <<>>) =>
        /\ \A u \in Sites(N) : \A b \in Bits(N) :
              ndraws[Edge(u, Flip(u, b))] =
                  (IF u < site THEN 1 ELSE 0)
                  + (IF Flip(u, b) < site THEN 1 ELSE 0)
        /\ \A a, b \in Sites(N) :
              /\ hamiltonian[a][b] \in {0, 1}
              /\ hamiltonian[a][b] = 1 => \E k \in Bits(N) : b = Flip(a, k)
              /\ hamiltonian[a][b] = hamiltonian[b][a]
        /\ s = <<>> /\ q = <<>> /\ visited = <<>>
        /\ (pc = "done" /\ result.kind = "matrix") =>
              site = NH /\ result.data = hamiltonian

\* hypercube_H has returned a matrix with a retained and an absent edge.
C18_Witness ==
    /\ op = "hypercube_H" /\ pc = "done" /\ result.kind = "matrix"
    /\ 0 < p /\ p < 100 /\ N > 1
    /\ result.data[0][1] = 1 /\ result.data[0][2] = 0

\* ======================================================================
\* C19: relaxation invariant.  In every step of a distance traversal no
\* recorded distance increases; a distance changes only at the seed, set to
\* 0 before the traversal, or at an unvisited neighbour of the dequeued site
\* u, to distances[u] + 1 and only when that is strictly smaller; the seed's
\* distance stays 0; the distance of a visited site never changes.
\* ======================================================================
C19_Step ==
    (op \in Dijkstra_Ops /\ distances # <<>> /\ distances' # <<>>) =>
        /\ \A x \in Sites(N) :
              /\ distances'[x] <= distances[x]
              /\ visited[x] => distances'[x] = distances[x]
              /\ distances'[x] # distances[x] =>
                    \/ pc \in {"call", "loop"} /\ x = site' /\ distances'[x] = 0
                    \/ /\ pc = "helper"
                       /\ \E k \in Bits(N) : x = Flip(Head(q), k)
                       /\ distances'[x] = distances[Head(q)] + 1
                       /\ distances'[x] < distances[x]
        /\ pc = "helper" => distances[site] = 0 /\ distances'[site] = 0

C19_RelaxationInvariant == [][C19_Step]_vars

\* A cluster of hypercube_dijkstra_LC has been grown in which a site at
\* distance 2 was offered the same distance over a second retained edge.
C19_Witness ==
    /\ op = "hypercube_dijkstra_LC" /\ pc = "returned"
    /\ \E x \in Sites(N) : \E a, b \in Bits(N) :
          /\ a # b /\ distances[x] = 2
          /\ Edge(x, Flip(x, a)) \in retained /\ Edge(x, Flip(x, b)) \in retained
          /\ distances[Flip(x, a)] = 1 /\ distances[Flip(x, b)] = 1

\* ======================================================================
\* C20: every traversal terminates with its container empty: once a helper
\* has been entered, the loop of DFS_hypercube / grow_H_cluster reaches an
\* empty stack and the loop of dijkstra an empty queue, and the helper
\* returns; so whenever a driver is about to start a later run (the next
\* realisation, the next cluster) the container is empty and the
\* stack-not-empty guard does not fire.
\* ======================================================================
C20_TraversalsTerminate ==
    /\ (pc = "helper") ~> (pc = "returned" /\ s = <<>> /\ q = <<>>)
    /\ [](pc = "loop" => s = <<>> /\ q = <<>>)

\* ======================================================================
\* C21: within one traversal-based operation (a realisation of
\* hypercube_clusters, a single-cluster or largest-cluster matrix
\* construction, a distance computation) every edge is drawn at most once;
\* so a site lies on the stack at most once per retained edge at it, at most
\* N times besides the seed push, and a matrix entry is written only at the
\* one draw of its edge: connected entries are never overwritten as
\* disconnected, nor the converse.
\* ======================================================================
\* The number of entries of the stack that hold site x.
OnStack(x) == Cardinality({k \in 1 .. Len(s) : s[k] = x})

C21_State ==
    (op # "hypercube_H" /\ ndraws # <<>>) =>
        /\ \A e \in AllEdges(N) : ndraws[e] <= 1
        /\ \A e \in retained : ndraws[e] = 1
        /\ \A x \in Sites(N) :
              /\ OnStack(x) <= Cardinality({e \in retained : x \in e})
                                + (IF x = site THEN 1 ELSE 0)
              /\ OnStack(x) <= N + 1
        /\ op \in DFS_H_Ops =>
              \A a \in Sites(N) : \A k \in Bits(N) :
                  hamiltonian[a][Flip(a, k)] = 1 =>
                      Edge(a, Flip(a, k)) \in retained

\* A step changes a matrix entry only at the first draw of its edge.
C21_Step ==
    (op \in DFS_H_Ops /\ hamiltonian # <<>> /\ hamiltonian' # <<>>) =>
        \A a, b \in Sites(N) :
            hamiltonian'[a][b] # hamiltonian[a][b] =>
                /\ ndraws[Edge(a, b)] = 0
                /\ ndraws'[Edge(a, b)] = 1

\* C21: every edge is drawn at most once, a site is pushed at most N times
\* besides the seed push, and no matrix entry is overwritten after the draw
\* of its edge.
C21_EdgeDrawnOnce == [](C21_State) /\ [][C21_Step]_vars

\* A matrix construction has returned with an edge that was drawn absent
\* from its first endpoint and whose second endpoint was visited later.
C21_Witness ==
    /\ op \in DFS_H_Ops /\ pc = "returned" /\ 0 < p /\ p < 100
    /\ \E a \in Sites(N) : \E k \in Bits(N) :
          /\ visited[a] /\ visited[Flip(a, k)]
          /\ ndraws[Edge(a, Flip(a, k))] = 1
          /\ Edge(a, Flip(a, k)) \notin retained
          /\ hamiltonian[a][Flip(a, k)] = 0

\* ======================================================================
\* C22: in hypercube_dijkstra_LC and hypercube_H_LC, whenever a cluster has
\* been grown and accounted for, total_size is the number of sites marked
\* visited; so total_size never exceeds the order NH, the difference
\* NH - total_size of the early-exit test never wraps, and
\* largest_cluster_size <= total_size <= NH holds throughout the enumeration.
\* ======================================================================
\* The number of sites marked visited.
VisitedCount == Cardinality({x \in Sites(N) : visited[x]})

\* C22: total_size counts the visited sites after each cluster, and
\* largest_cluster_size <= total_size <= NH at every point of the loop.
C22_TotalSizeCountsVisited ==
    (op \in LC_Ops /\ visited # <<>>) =>
        /\ largest_cluster_size <= total_size
        /\ total_size <= NH
        /\ pc \in {"loop", "copy"} => total_size = VisitedCount
        /\ pc = "returned" => total_size + cluster_size = VisitedCount

\* The enumeration has accounted for two clusters of different sizes and
\* goes on: sites are still unvisited and the difference is positive.
C22_Witness ==
    /\ op \in LC_Ops /\ pc = "loop"
    /\ cluster_index = 2
    /\ 0 < largest_cluster_size /\ largest_cluster_size < total_size
    /\ total_size = VisitedCount /\ total_size < NH

\* ======================================================================
\* C23: the tuple hypercube_H_SC returns, for every N, p and outcome of the
\* draws: every entry 1 of the matrix joins two sites of the cluster grown
\* from site 0, the sites reachable from site 0 through entries 1 are exactly
\* the visited sites, and the size returned is their number.
\* ======================================================================
\* The pairs of sites a matrix joins.
OnesOf(M, n) ==
    {e \in {Edge(a, b) : a \in Sites(n), b \in Sites(n)} :
        \E a, b \in Sites(n) : e = Edge(a, b) /\ M[a][b] = 1}

\* The sites reachable from root through the entries 1 of M.
ReachableIn(M, n, root) ==
    LET hop == HopDistance(OnesOf(M, n), n, root)
    IN {x \in Sites(n) : hop[x] # ULONG_MAX}

\* C23: the matrix hypercube_H_SC returns is the adjacency of the cluster of
\* site 0 and the size returned is the size of that cluster.
C23_MatrixIsClusterOfZero ==
    (op = "hypercube_H_SC" /\ pc = "done" /\ result.kind = "tuple") =>
        LET cluster == {x \in Sites(N) : visited[x]}
        IN  /\ \A a, b \in Sites(N) :
                  result.data[a][b] = 1 => a \in cluster /\ b \in cluster
            /\ ReachableIn(result.data, N, 0) = cluster
            /\ result.size = Cardinality(cluster)

\* ======================================================================
\* C24: when a top-level operation fails before some of its buffers are set
\* up (arguments rejected, setup_queue or setup_stack failed, visited or
\* distances not allocated), its error label releases only buffers allocated
\* earlier in the same call: it never tests and never releases a handle the
\* call has not assigned yet.
\* ======================================================================
C24_ErrorLabelSeesOnlyAssigned ==
    (pc \in {"done", "crashed"} /\ ~helper_failed) =>
        /\ "uninit_read" \notin ub
        /\ "wild_free" \notin ub

====
